---- MODULE Spec2Model ----
(***************************************************************************)
(* Document overlay caches (in-memory and IndexedDb) and the local         *)
(* documents view of the Firestore client, as state machines.              *)
(*                                                                         *)
(* Sources:                                                                *)
(*   src/packages/firestore/src/local/memory_document_overlay_cache.ts     *)
(*       lines   1-159  MemoryDocumentOverlayCache                         *)
(*       lines 161-350  IndexedDbDocumentOverlayCache                      *)
(*       lines 351-433  DocumentOverlayCache (interface)                   *)
(*   src/unnamed/part_001   LocalDocumentsView                             *)
(*                                                                         *)
(* SortedMap, SimpleDbStore, the local serializer, the mutation model, the *)
(* mutation queue and the remote document cache are used by these files    *)
(* but are not part of them; they are modelled from the specification      *)
(* (sections 3, 4.1, 4.3.2, 4.5, 6).                                       *)
(***************************************************************************)
EXTENDS Integers, Sequences, FiniteSets, TLC

(***************************************************************************)
(* Bounds of the model.                                                    *)
(***************************************************************************)
\* Batch ids handed to the overlay cache are 1..MaxBatchId.
MaxBatchId == 2
\* The count argument of getOverlaysForCollectionGroup is 0..MaxCount.
MaxCount == 2

(***************************************************************************)
(* JavaScript values.                                                      *)
(***************************************************************************)
\* null, as returned by SortedMap.get for a missing key.
Null == [type |-> "null"]
\* undefined, as returned by Map.prototype.get for a missing key.
Undefined == [type |-> "undefined"]

Min(S) == CHOOSE x \in S : \A y \in S : x <= y
Max(S) == CHOOSE x \in S : \A y \in S : x >= y

\* An empty map (a function with an empty domain).
EmptyMap == [x \in {} |-> x]
MapPut(f, k, v) == [x \in (DOMAIN f) \cup {k} |-> IF x = k THEN v ELSE f[x]]
MapDelete(f, k) == [x \in (DOMAIN f) \ {k} |-> f[x]]
\* Map.prototype.get: undefined for a missing key.
MapGet(f, k) == IF k \in DOMAIN f THEN f[k] ELSE Undefined
MapHas(f, k) == k \in DOMAIN f

\* A JavaScript Set<DocumentKey>, boxed so that it can be compared with
\* null and undefined.
NewSet(S) == [type |-> "Set", keys |-> S]

(***************************************************************************)
(* Strings and their order.                                                *)
(***************************************************************************)
\* Separator appended to every segment by encodeResourcePath; it sorts
\* before every character of a segment.
Separator == "\\u0001\\u0001"

\* The strings of the model in ascending order.
StringOrder ==
  << "", Separator, "alice", "bob", "m1", "m2", "m3", "messages",
     "r1", "rooms", "u1", "users" >>

\* The position of every string in StringOrder.
RankOf ==
  [s \in {StringOrder[i] : i \in 1..Len(StringOrder)} |->
     CHOOSE i \in 1..Len(StringOrder) : StringOrder[i] = s]

Rank(s) == RankOf[s]

\* primitiveComparator on strings: -1, 0 or 1.
StringCompare(a, b) ==
  IF Rank(a) < Rank(b) THEN -1 ELSE IF Rank(a) > Rank(b) THEN 1 ELSE 0

NumberCompare(a, b) == IF a < b THEN -1 ELSE IF a > b THEN 1 ELSE 0

(***************************************************************************)
(* ResourcePath and DocumentKey (spec section 3).                          *)
(***************************************************************************)
\* ResourcePath.comparator: segment by segment, then by length.
RECURSIVE PathCompareFrom(_, _, _)
PathCompareFrom(p, q, i) ==
  IF i > Len(p) \/ i > Len(q) THEN NumberCompare(Len(p), Len(q))
  ELSE IF p[i] # q[i] THEN StringCompare(p[i], q[i])
  ELSE PathCompareFrom(p, q, i + 1)

PathCompare(p, q) == PathCompareFrom(p, q, 1)

\* ResourcePath.child(segment).
Child(path, segment) == Append(path, segment)

\* ResourcePath.isPrefixOf(other).
IsPrefixOf(path, other) ==
  /\ Len(path) <= Len(other)
  /\ \A i \in 1..Len(path) : path[i] = other[i]

\* DocumentKey.getCollectionGroup(): the last collection segment.
GetCollectionGroup(key) == key[Len(key) - 1]

\* DocumentKey.getCollectionPath(): the path of the parent collection.
GetCollectionPath(key) == SubSeq(key, 1, Len(key) - 1)

\* The document keys of the model.
Keys ==
  { <<"rooms", "r1">>,
    <<"rooms", "r1", "messages", "m1">>,
    <<"rooms", "r1", "messages", "m2">>,
    <<"users", "u1", "messages", "m3">> }

\* The collection paths queried by the model.
Collections ==
  { <<"rooms">>, <<"rooms", "r1", "messages">>, <<"users", "u1", "messages">>,
    <<"users">> }

\* The collection groups queried by the model.
CollectionGroups == {"messages", "rooms"}

\* The keys of S in ascending DocumentKey.comparator order.
RECURSIVE SortPaths(_)
SortPaths(S) ==
  IF S = {} THEN <<>>
  ELSE LET k == CHOOSE x \in S : \A y \in S : PathCompare(x, y) <= 0
       IN <<k>> \o SortPaths(S \ {k})

KeyOrder == SortPaths(Keys)

InSet(S) == [k \in Keys |-> k \in S]

SortKeys(S) == LET in == InSet(S) IN SelectSeq(KeyOrder, LAMBDA k : in[k])

\* The numbers of S in ascending order.
RECURSIVE SortNumbers(_)
SortNumbers(S) ==
  IF S = {} THEN <<>> ELSE <<Min(S)>> \o SortNumbers(S \ {Min(S)})

(***************************************************************************)
(* Mutation and Overlay (spec sections 3 and 4.2).                         *)
(***************************************************************************)
SetMutation(key, value) ==
  [type |-> "set", key |-> key, value |-> value, fieldMask |-> {},
   precondition |-> "none"]

PatchMutation(key, value, fieldMask, precondition) ==
  [type |-> "patch", key |-> key, value |-> value, fieldMask |-> fieldMask,
   precondition |-> precondition]

DeleteMutation(key) ==
  [type |-> "delete", key |-> key, value |-> EmptyMap, fieldMask |-> {},
   precondition |-> "none"]

\* mutation instanceof PatchMutation
IsPatchMutation(mutation) == mutation.type = "patch"

\* new Overlay(largestBatchId, mutation)
Overlay(largestBatchId, mutation) ==
  [largestBatchId |-> largestBatchId, mutation |-> mutation]

\* Overlay.getKey()
GetKey(overlay) == overlay.mutation.key

\* The mutations the model saves as overlays of a key: a set for every key,
\* a patch for the first one, and an absent mutation (null) for the first
\* and the last one.
OverlayMutations(key) ==
  IF key = <<"rooms", "r1">>
    THEN { SetMutation(key, [name |-> "Bob"]),
           PatchMutation(key, [city |-> "LA"], {"city"}, "exists"), Null }
    ELSE IF key = <<"users", "u1", "messages", "m3">>
      THEN { SetMutation(key, [name |-> "Bob"]), Null }
      ELSE { SetMutation(key, [name |-> "Bob"]) }

BatchIds == 1..MaxBatchId

(***************************************************************************)
(* SortedMap (spec section 4.1): an ordered map from keys to values.       *)
(***************************************************************************)
\* SortedMap.get: null for a missing key.
SortedMapGet(map, key) == IF key \in DOMAIN map THEN map[key] ELSE Null
\* SortedMap.insert
SortedMapInsert(map, key, value) == MapPut(map, key, value)
\* SortedMap.remove
SortedMapRemove(map, key) == MapDelete(map, key)
\* SortedMap.getIterator(): the keys in ascending order.
GetIterator(map) == SortKeys(DOMAIN map)
\* SortedMap.getIteratorFrom(key): the keys >= key in ascending order.
GetIteratorFrom(map, key) ==
  SortKeys({k \in DOMAIN map : PathCompare(k, key) >= 0})

(***************************************************************************)
(* MemoryDocumentOverlayCache.                                             *)
(* Its state is the pair of fields (overlays, overlayByBatchId); the       *)
(* operators below take and return the record                              *)
(*   [overlays, overlayByBatchId, threw]                                   *)
(* where threw tells that the call ended with a TypeError.                 *)
(***************************************************************************)
\* getOverlay(key)
MemoryGetOverlay(ovs, key) == SortedMapGet(ovs, key)

\* The bucket creation of saveOverlay: the result of Map.get is compared
\* with null.
MemoryCreateBucket(byBatchId, largestBatchId) ==
  IF MapGet(byBatchId, largestBatchId) = Null
    THEN MapPut(byBatchId, largestBatchId, NewSet({}))
    ELSE byBatchId

\* saveOverlay(largestBatchId, mutation)
MemorySaveOverlay(m, largestBatchId, mutation) ==
  IF mutation = Null THEN m
  ELSE
    LET existing == SortedMapGet(m.overlays, mutation.key)
        oldBucket == IF existing # Null
                       THEN MapGet(m.overlayByBatchId, existing.largestBatchId)
                       ELSE Undefined
    IN IF existing # Null /\ oldBucket = Undefined
         \* overlayByBatchId.get(existing.largestBatchId).delete(...) on undefined
         THEN [m EXCEPT !.threw = TRUE]
         ELSE
           LET byBatchId1 ==
                 IF existing # Null
                   THEN MapPut(m.overlayByBatchId, existing.largestBatchId,
                               NewSet(oldBucket.keys \ {mutation.key}))
                   ELSE m.overlayByBatchId
               overlays1 ==
                 SortedMapInsert(m.overlays, mutation.key,
                                 Overlay(largestBatchId, mutation))
               byBatchId2 == MemoryCreateBucket(byBatchId1, largestBatchId)
               bucket == MapGet(byBatchId2, largestBatchId)
           IN IF bucket = Undefined
                \* overlayByBatchId.get(largestBatchId).add(...) on undefined
                THEN [overlays |-> overlays1, overlayByBatchId |-> byBatchId2,
                      threw |-> TRUE]
                ELSE [overlays |-> overlays1,
                      overlayByBatchId |->
                        MapPut(byBatchId2, largestBatchId,
                               NewSet(bucket.keys \cup {mutation.key})),
                      threw |-> FALSE]

\* saveOverlays(largestBatchId, overlays): the entries of the map in its
\* iteration order; an exception ends the forEach.
RECURSIVE MemorySaveOverlays(_, _, _)
MemorySaveOverlays(m, largestBatchId, entries) ==
  IF entries = <<>> \/ m.threw THEN m
  ELSE MemorySaveOverlays(
         MemorySaveOverlay(m, largestBatchId, Head(entries).mutation),
         largestBatchId, Tail(entries))

\* removeOverlaysForBatchId(batchId)
RECURSIVE MemoryRemoveKeys(_, _)
MemoryRemoveKeys(ovs, keys) ==
  IF keys = <<>> THEN ovs
  ELSE MemoryRemoveKeys(SortedMapRemove(ovs, Head(keys)), Tail(keys))

MemoryRemoveOverlaysForBatchId(m, batchId) ==
  IF MapHas(m.overlayByBatchId, batchId)
    THEN LET keys == MapGet(m.overlayByBatchId, batchId)
         IN [overlays |-> MemoryRemoveKeys(m.overlays, SortKeys(keys.keys)),
             overlayByBatchId |-> MapDelete(m.overlayByBatchId, batchId),
             threw |-> FALSE]
    ELSE [m EXCEPT !.threw = FALSE]

\* getOverlaysForCollection(collection, sinceBatchId): the loop over the
\* iterator, with its break and its continue.  The result is the Map in
\* insertion order, as a sequence of overlays.
RECURSIVE MemoryCollectionLoop(_, _, _, _, _, _)
MemoryCollectionLoop(ovs, iter, i, collection, sinceBatchId, result) ==
  IF i > Len(iter) THEN result
  ELSE
    LET overlay == ovs[iter[i]]
        key == GetKey(overlay)
    IN IF ~IsPrefixOf(collection, key) THEN result
       ELSE IF Len(key) # Len(collection) + 1
         THEN MemoryCollectionLoop(ovs, iter, i + 1, collection, sinceBatchId,
                                   result)
       ELSE IF overlay.largestBatchId > sinceBatchId
         THEN MemoryCollectionLoop(ovs, iter, i + 1, collection, sinceBatchId,
                                   Append(result, overlay))
       ELSE MemoryCollectionLoop(ovs, iter, i + 1, collection, sinceBatchId,
                                 result)

MemoryGetOverlaysForCollection(ovs, collection, sinceBatchId) ==
  LET prefix == Child(collection, "")
  IN MemoryCollectionLoop(ovs, GetIteratorFrom(ovs, prefix), 1, collection,
                          sinceBatchId, <<>>)

\* getOverlaysForCollectionGroup, first loop: batchIdToOverlays, a sorted
\* map from batch id to the overlays of that batch in iteration order.
RECURSIVE MemoryGroupBuckets(_, _, _, _, _, _)
MemoryGroupBuckets(ovs, iter, i, collectionGroup, sinceBatchId, buckets) ==
  IF i > Len(iter) THEN buckets
  ELSE
    LET overlay == ovs[iter[i]]
        key == GetKey(overlay)
    IN IF GetCollectionGroup(key) # collectionGroup
         THEN MemoryGroupBuckets(ovs, iter, i + 1, collectionGroup,
                                 sinceBatchId, buckets)
       ELSE IF overlay.largestBatchId > sinceBatchId
         THEN LET old == IF overlay.largestBatchId \in DOMAIN buckets
                           THEN buckets[overlay.largestBatchId] ELSE <<>>
              IN MemoryGroupBuckets(ovs, iter, i + 1, collectionGroup,
                   sinceBatchId,
                   MapPut(buckets, overlay.largestBatchId, Append(old, overlay)))
       ELSE MemoryGroupBuckets(ovs, iter, i + 1, collectionGroup,
                               sinceBatchId, buckets)

\* getOverlaysForCollectionGroup, second loop: the buckets are drained in
\* ascending batch id order; the size test follows the copy of a bucket.
RECURSIVE MemoryGroupDrain(_, _, _, _, _)
MemoryGroupDrain(buckets, batchIter, i, count, result) ==
  IF i > Len(batchIter) THEN result
  ELSE
    LET result1 == result \o buckets[batchIter[i]]
    IN IF Len(result1) >= count THEN result1
       ELSE MemoryGroupDrain(buckets, batchIter, i + 1, count, result1)

MemoryGetOverlaysForCollectionGroup(ovs, collectionGroup, sinceBatchId, count) ==
  LET buckets == MemoryGroupBuckets(ovs, GetIterator(ovs), 1, collectionGroup,
                                    sinceBatchId, EmptyMap)
  IN MemoryGroupDrain(buckets, SortNumbers(DOMAIN buckets), 1, count, <<>>)

(***************************************************************************)
(* The transactional indexed store behind IndexedDbDocumentOverlayCache    *)
(* (spec sections 4.3.2 and 6): SimpleDbStore, IDBKeyRange, the local      *)
(* serializer and encodeResourcePath.                                      *)
(* A row is (userId, documentPath, collectionPath, collectionGroup,        *)
(* largestBatchId, mutationBytes), with primary key (userId, documentPath).*)
(***************************************************************************)
\* Number.POSITIVE_INFINITY
POSITIVE_INFINITY == 1000000

\* encodeResourcePath: every segment is followed by the separator.
EncodeResourcePath(path) ==
  [i \in 1..(2 * Len(path)) |->
     IF i % 2 = 1 THEN path[(i + 1) \div 2] ELSE Separator]

\* decodeResourcePath
DecodeResourcePath(encoded) ==
  [i \in 1..(Len(encoded) \div 2) |-> encoded[2 * i - 1]]

\* The serializer's encoding of a mutation.
ToMutationBytes(mutation) ==
  << mutation.type, EncodeResourcePath(mutation.key), mutation.value,
     mutation.fieldMask, mutation.precondition >>

FromMutationBytes(bytes) ==
  [type |-> bytes[1], key |-> DecodeResourcePath(bytes[2]), value |-> bytes[3],
   fieldMask |-> bytes[4], precondition |-> bytes[5]]

\* toDbDocumentOverlayKey(userId, key)
ToDbDocumentOverlayKey(userId, key) == <<userId, EncodeResourcePath(key)>>

\* toDbDocumentOverlay(serializer, userId, overlay)
ToDbDocumentOverlay(userId, overlay) ==
  [userId |-> userId,
   documentPath |-> EncodeResourcePath(GetKey(overlay)),
   collectionPath |-> EncodeResourcePath(GetCollectionPath(GetKey(overlay))),
   collectionGroup |-> GetCollectionGroup(GetKey(overlay)),
   largestBatchId |-> overlay.largestBatchId,
   mutationBytes |-> ToMutationBytes(overlay.mutation)]

\* fromDbDocumentOverlay(serializer, dbOverlay)
FromDbDocumentOverlay(dbOverlay) ==
  Overlay(dbOverlay.largestBatchId, FromMutationBytes(dbOverlay.mutationBytes))

PrimaryKey(row) == <<row.userId, row.documentPath>>
PrimaryKeyKinds == <<"string", "path">>

\* The key of a row in a secondary index, and the kinds of its elements.
IndexKey(index, row) ==
  CASE index = "batchIdOverlayIndex" -> <<row.userId, row.largestBatchId>>
    [] index = "collectionPathOverlayIndex" ->
         <<row.userId, row.collectionPath, row.largestBatchId>>
    [] index = "collectionGroupOverlayIndex" ->
         <<row.userId, row.collectionGroup, row.largestBatchId>>

IndexKinds(index) ==
  CASE index = "batchIdOverlayIndex" -> <<"string", "number">>
    [] index = "collectionPathOverlayIndex" -> <<"string", "path", "number">>
    [] index = "collectionGroupOverlayIndex" -> <<"string", "string", "number">>

ElementCompare(kind, a, b) ==
  CASE kind = "string" -> StringCompare(a, b)
    [] kind = "path" -> PathCompare(a, b)
    [] kind = "number" -> NumberCompare(a, b)

\* The order of IndexedDb array keys of equal length: element by element.
RECURSIVE ArrayCompareFrom(_, _, _, _)
ArrayCompareFrom(kinds, a, b, i) ==
  IF i > Len(kinds) THEN 0
  ELSE LET c == ElementCompare(kinds[i], a[i], b[i])
       IN IF c # 0 THEN c ELSE ArrayCompareFrom(kinds, a, b, i + 1)

ArrayCompare(kinds, a, b) == ArrayCompareFrom(kinds, a, b, 1)

\* IDBKeyRange.bound(lower, upper, lowerOpen, upperOpen)
Bound(lower, upper, lowerOpen, upperOpen) ==
  [lower |-> lower, upper |-> upper, lowerOpen |-> lowerOpen,
   upperOpen |-> upperOpen]

InRange(kinds, key, range) ==
  /\ IF range.lowerOpen THEN ArrayCompare(kinds, range.lower, key) < 0
                        ELSE ArrayCompare(kinds, range.lower, key) <= 0
  /\ IF range.upperOpen THEN ArrayCompare(kinds, key, range.upper) < 0
                        ELSE ArrayCompare(kinds, key, range.upper) <= 0

\* SimpleDbStore.put: an upsert under the primary key.
StorePut(store, row) ==
  {r \in store : PrimaryKey(r) # PrimaryKey(row)} \cup {row}

\* SimpleDbStore.get: the row of a primary key, or null.
StoreGet(store, primaryKey) ==
  IF \E r \in store : PrimaryKey(r) = primaryKey
    THEN CHOOSE r \in store : PrimaryKey(r) = primaryKey
    ELSE Null

\* SimpleDbStore.deleteAll(index, range)
StoreDeleteAll(store, index, range) ==
  {r \in store : ~InRange(IndexKinds(index), IndexKey(index, r), range)}

\* The rows of S in index order: by index key, then by primary key.
RECURSIVE SortRows(_, _)
SortRows(index, S) ==
  IF S = {} THEN <<>>
  ELSE LET before(x, y) ==
             LET c == ArrayCompare(IndexKinds(index), IndexKey(index, x),
                                   IndexKey(index, y))
             IN \/ c < 0
                \/ /\ c = 0
                   /\ ArrayCompare(PrimaryKeyKinds, PrimaryKey(x),
                                   PrimaryKey(y)) <= 0
           r == CHOOSE x \in S : \A y \in S : before(x, y)
       IN <<r>> \o SortRows(index, S \ {r})

\* SimpleDbStore.loadAll(index, range) and the rows visited by
\* SimpleDbStore.iterate({index, range}, callback).
StoreLoadAll(store, index, range) ==
  SortRows(index,
    {r \in store : InRange(IndexKinds(index), IndexKey(index, r), range)})

(***************************************************************************)
(* IndexedDbDocumentOverlayCache.  Its only state is the store; userId is  *)
(* the user the cache was created for.                                     *)
(***************************************************************************)
\* getOverlay(transaction, key)
IndexedDbGetOverlay(store, userId, key) ==
  LET dbOverlay == StoreGet(store, ToDbDocumentOverlayKey(userId, key))
  IN IF dbOverlay # Null THEN FromDbDocumentOverlay(dbOverlay) ELSE Null

\* saveOverlay(transaction, overlay)
IndexedDbSaveOverlay(store, userId, overlay) ==
  StorePut(store, ToDbDocumentOverlay(userId, overlay))

\* Whether saveOverlays throws: an absent mutation reaches
\* toDbDocumentOverlay, which reads the key of the overlay's mutation.
IndexedDbSaveOverlaysThrew(entries) ==
  \E i \in 1..Len(entries) : entries[i].mutation = Null

\* saveOverlays(transaction, largestBatchId, overlays): the store with the
\* rows put, up to the entry at which the call throws.
RECURSIVE IndexedDbSaveOverlays(_, _, _, _)
IndexedDbSaveOverlays(store, userId, largestBatchId, entries) ==
  IF entries = <<>> \/ Head(entries).mutation = Null THEN store
  ELSE IndexedDbSaveOverlays(
         IndexedDbSaveOverlay(store, userId,
                              Overlay(largestBatchId, Head(entries).mutation)),
         userId, largestBatchId, Tail(entries))

\* A range from the first user's batch to the last user's.
BatchIdRangeOfAllUsers(userId, batchId) ==
  Bound(<<"alice", batchId>>, <<"bob", batchId + 1>>, FALSE, TRUE)

\* The key range of removeOverlaysForBatchId.
BatchIdRange(userId, batchId) ==
  Bound(<<userId, batchId>>, <<userId, batchId + 1>>, FALSE, TRUE)

\* removeOverlaysForBatchId(transaction, batchId)
IndexedDbRemoveOverlaysForBatchId(store, userId, batchId) ==
  StoreDeleteAll(store, "batchIdOverlayIndex", BatchIdRange(userId, batchId))

\* A range that takes in the overlays of batch sinceBatchId itself.
CollectionRangeLowerClosed(userId, collection, sinceBatchId) ==
  LET collectionPath == EncodeResourcePath(collection)
  IN Bound(<<userId, collectionPath, sinceBatchId>>,
           <<userId, collectionPath, POSITIVE_INFINITY>>, FALSE, FALSE)

\* The key range of getOverlaysForCollection: the lower bound is open.
CollectionRange(userId, collection, sinceBatchId) ==
  LET collectionPath == EncodeResourcePath(collection)
  IN Bound(<<userId, collectionPath, sinceBatchId>>,
           <<userId, collectionPath, POSITIVE_INFINITY>>, TRUE, FALSE)

\* getOverlaysForCollection(transaction, collection, sinceBatchId)
IndexedDbGetOverlaysForCollection(store, userId, collection, sinceBatchId) ==
  LET dbOverlays == StoreLoadAll(store, "collectionPathOverlayIndex",
                      CollectionRange(userId, collection, sinceBatchId))
  IN [i \in 1..Len(dbOverlays) |-> FromDbDocumentOverlay(dbOverlays[i])]

\* The key range of getOverlaysForCollectionGroup: the lower bound is open.
CollectionGroupRange(userId, collectionGroup, sinceBatchId) ==
  Bound(<<userId, collectionGroup, sinceBatchId>>,
        <<userId, collectionGroup, POSITIVE_INFINITY>>, TRUE, FALSE)

\* The callback of getOverlaysForCollectionGroup, applied to the rows in
\* index order until control.done().  currentBatchId is the set holding the
\* batch id of the last overlay added (empty while it is undefined).
RECURSIVE IndexedDbGroupLoop(_, _, _, _, _, _)
IndexedDbGroupLoop(rows, i, count, currentBatchId, currentCount, result) ==
  IF i > Len(rows) THEN result
  ELSE
    LET overlay == FromDbDocumentOverlay(rows[i])
    IN IF currentCount < count \/ overlay.largestBatchId \in currentBatchId
         THEN IndexedDbGroupLoop(rows, i + 1, count, {overlay.largestBatchId},
                                 currentCount + 1, Append(result, overlay))
         ELSE result

\* getOverlaysForCollectionGroup(transaction, collectionGroup, sinceBatchId,
\* count)
IndexedDbGetOverlaysForCollectionGroup(store, userId, collectionGroup, sinceBatchId, count) ==
  IndexedDbGroupLoop(
    StoreLoadAll(store, "collectionGroupOverlayIndex",
                 CollectionGroupRange(userId, collectionGroup, sinceBatchId)),
    1, count, {}, 0, <<>>)

(***************************************************************************)
(* Documents, field masks and mutations as LocalDocumentsView uses them    *)
(* (spec sections 3, 4.4 and 4.5).                                         *)
(***************************************************************************)
\* MutableDocument.newInvalidDocument(key)
NewInvalidDocument(key) ==
  [key |-> key, documentType |-> "INVALID", data |-> EmptyMap]

\* MutableDocument.newFoundDocument(key, ..., data)
NewFoundDocument(key, data) ==
  [key |-> key, documentType |-> "FOUND", data |-> data]

\* MutableDocument.newNoDocument(key, ...)
NewNoDocument(key) ==
  [key |-> key, documentType |-> "NO_DOCUMENT", data |-> EmptyMap]

\* new FieldMask(fields).  A null mask stands for the whole document.
FieldMask(fields) == [type |-> "FieldMask", fields |-> fields]

\* The precondition of a mutation against a document.
PreconditionIsValidForDocument(precondition, document) ==
  IF precondition = "exists" THEN document.documentType = "FOUND" ELSE TRUE

\* The data of a document with a patch written over it: a field of the mask
\* takes the value the patch has for it and is deleted when the patch has
\* none; the other fields stay.
PatchData(data, value, fieldMask) ==
  [f \in ((DOMAIN data) \ fieldMask) \cup ((DOMAIN value) \cap fieldMask) |->
     IF f \in fieldMask THEN value[f] ELSE data[f]]

\* mutationApplyToLocalView(mutation, document, previousMask, localWriteTime):
\* the document as the call leaves it and the mask it returns.  A set and a
\* delete overwrite the document; a patch whose precondition does not hold
\* is a no-op.
MutationApplyToLocalView(mutation, document, previousMask) ==
  CASE mutation.type = "set" ->
         [document |-> NewFoundDocument(document.key, mutation.value),
          mask |-> Null]
    [] mutation.type = "delete" ->
         [document |-> NewNoDocument(document.key), mask |-> Null]
    [] mutation.type = "patch" ->
         IF PreconditionIsValidForDocument(mutation.precondition, document)
           THEN [document |->
                   NewFoundDocument(document.key,
                                    PatchData(document.data, mutation.value,
                                              mutation.fieldMask)),
                 mask |->
                   IF previousMask = Null THEN Null
                   ELSE FieldMask(previousMask.fields \cup mutation.fieldMask)]
           ELSE [document |-> document, mask |-> previousMask]

\* new MutationBatch(batchId, ..., mutations)
MutationBatch(batchId, mutations) ==
  [batchId |-> batchId, mutations |-> mutations]

\* MutationBatch.keys()
BatchKeys(batch) ==
  {batch.mutations[i].key : i \in 1..Len(batch.mutations)}

\* A DocumentKey object: its path and the value that holds it (a batch, an
\* overlay or a remote document).  Each of these is decoded from its own
\* row, so no two of them hold the same object for one path, and a Map or a
\* Set of JavaScript finds a key that is an object by identity.
KeyObject(key, owner) == [path |-> key, owner |-> owner]

\* The DocumentKey object the mutations of a batch hold for a key.
BatchKeyObject(batch, key) == KeyObject(key, batch.batchId)

\* MutationBatch.applyToLocalViewWithFieldMask(document, mask): the
\* mutations of the batch for the document's key, in order.
RECURSIVE ApplyMutationsFrom(_, _, _, _)
ApplyMutationsFrom(mutations, i, document, mask) ==
  IF i > Len(mutations) THEN [document |-> document, mask |-> mask]
  ELSE IF mutations[i].key = document.key
    THEN LET applied == MutationApplyToLocalView(mutations[i], document, mask)
         IN ApplyMutationsFrom(mutations, i + 1, applied.document,
                               applied.mask)
    ELSE ApplyMutationsFrom(mutations, i + 1, document, mask)

ApplyToLocalViewWithFieldMask(batch, document, mask) ==
  ApplyMutationsFrom(batch.mutations, 1, document, mask)

\* calculateOverlayMutation(doc, mask): one mutation with the composed
\* effect of the mutations applied to doc.
CalculateOverlayMutation(doc, mask) ==
  IF mask = Null
    THEN IF doc.documentType = "NO_DOCUMENT"
           THEN DeleteMutation(doc.key)
           ELSE SetMutation(doc.key, doc.data)
    ELSE PatchMutation(doc.key,
                       [f \in mask.fields \cap DOMAIN doc.data |-> doc.data[f]],
                       mask.fields, "exists")

\* MutationQueue.getAllMutationBatchesAffectingDocumentKeys(transaction,
\* docs): the batches of the queue, in batch id order, that touch a key of
\* docs.
GetAllMutationBatchesAffectingDocumentKeys(queue, docs) ==
  SelectSeq(queue, LAMBDA batch : BatchKeys(batch) \cap (DOMAIN docs) # {})

\* RemoteDocumentCache.getEntry(transaction, key): an invalid document for
\* a key the cache does not hold.
GetEntry(remote, key) ==
  IF key \in DOMAIN remote THEN remote[key] ELSE NewInvalidDocument(key)

\* RemoteDocumentCache.getEntries(transaction, keys)
GetEntries(remote, keys) == [k \in keys |-> GetEntry(remote, k)]

\* SortedMap.getReverseIterator() of a map keyed by batch id: the keys in
\* descending order.
GetReverseIterator(map) ==
  LET ascending == SortNumbers(DOMAIN map)
  IN [i \in 1..Len(ascending) |-> ascending[Len(ascending) + 1 - i]]

(***************************************************************************)
(* LocalDocumentsView.  The overlay cache it is given is the persistent    *)
(* one: the view passes the transaction as first argument and chains the   *)
(* PersistencePromise each call returns.                                   *)
(***************************************************************************)
\* The body of batch.keys().forEach in recalculateAndSaveOverlays, for one
\* key of one batch.  r holds docs, masks and documentsByBatchId; the
\* document of docs is changed in place.  docs is a SortedMap and finds the
\* key by its comparator; masks is a Map and the buckets are Sets, which
\* hold the key object of the batch.
RecalculateKey(r, batch, key) ==
  IF r.threw THEN r
  ELSE IF SortedMapGet(r.docs, key) = Null
    \* docs.get(key)! is null: the batch reads the key of null
    THEN [r EXCEPT !.threw = TRUE]
    ELSE
      LET object == BatchKeyObject(batch, key)
          mask == IF MapHas(r.masks, object) THEN MapGet(r.masks, object)
                  ELSE FieldMask({})
          applied == ApplyToLocalViewWithFieldMask(
                       batch, SortedMapGet(r.docs, key), mask)
          created ==
            IF SortedMapGet(r.documentsByBatchId, batch.batchId) = Null
              THEN SortedMapInsert(r.documentsByBatchId, batch.batchId,
                                   NewSet({}))
              ELSE r.documentsByBatchId
          bucket == SortedMapGet(created, batch.batchId)
      IN [docs |-> MapPut(r.docs, key, applied.document),
          masks |-> MapPut(r.masks, object, applied.mask),
          documentsByBatchId |->
            MapPut(created, batch.batchId, NewSet(bucket.keys \cup {object})),
          threw |-> FALSE]

\* batch.keys().forEach(...) for the keys of one batch, in key order.
RECURSIVE RecalculateBatch(_, _, _, _)
RecalculateBatch(r, batch, keys, i) ==
  IF i > Len(keys) THEN r
  ELSE RecalculateBatch(RecalculateKey(r, batch, keys[i]), batch, keys, i + 1)

\* batches.forEach(...): the first phase of recalculateAndSaveOverlays.
RECURSIVE RecalculateBatches(_, _, _)
RecalculateBatches(r, batches, i) ==
  IF i > Len(batches) THEN r
  ELSE RecalculateBatches(
         RecalculateBatch(r, batches[i], SortKeys(BatchKeys(batches[i])), 1),
         batches, i + 1)

\* The overlays staged for one batch id: the key objects of its bucket that
\* are not in processed, in the order they were added (the key order of
\* batch.keys()), each with its calculated mutation.
StagedOverlays(r, batchId, processed) ==
  LET objects == SortedMapGet(r.documentsByBatchId, batchId).keys \ processed
      keys == SortKeys({object.path : object \in objects})
  IN [j \in 1..Len(keys) |->
        LET object == CHOOSE o \in objects : o.path = keys[j]
        IN [key |-> keys[j],
            mutation |-> CalculateOverlayMutation(SortedMapGet(r.docs, keys[j]),
                                                  MapGet(r.masks, object))]]

\* The second phase of recalculateAndSaveOverlays: the batch ids of iter,
\* each saved with the overlays staged for it.
RECURSIVE RecalculateSave(_, _, _, _, _, _)
RecalculateSave(store, userId, r, iter, i, processed) ==
  IF i > Len(iter) THEN store
  ELSE RecalculateSave(
         IndexedDbSaveOverlays(store, userId, iter[i],
                               StagedOverlays(r, iter[i], processed)),
         userId, r, iter, i + 1,
         processed \cup SortedMapGet(r.documentsByBatchId, iter[i]).keys)

\* recalculateAndSaveOverlays(transaction, docs): the store and docs as the
\* call leaves them, and whether it threw.
RecalculateAndSaveOverlays(store, userId, queue, docs) ==
  LET batches == GetAllMutationBatchesAffectingDocumentKeys(queue, docs)
      r == RecalculateBatches(
             [docs |-> docs, masks |-> EmptyMap,
              documentsByBatchId |-> EmptyMap, threw |-> FALSE], batches, 1)
  IN IF r.threw
       THEN [store |-> store, docs |-> r.docs, threw |-> TRUE]
       ELSE [store |-> RecalculateSave(store, userId, r,
                         GetReverseIterator(r.documentsByBatchId), 1, {}),
             docs |-> r.docs, threw |-> FALSE]

\* An overlay lookup that goes to the overlay cache for every document.
ComputeViewsOverlayFromCache(store, userId, memoizedOverlays, key) ==
  IndexedDbGetOverlay(store, userId, key)

\* The overlay computeViews takes for a document.
ComputeViewsOverlay(store, userId, memoizedOverlays, key) ==
  IF MapHas(memoizedOverlays, key) THEN MapGet(memoizedOverlays, key)
  ELSE IndexedDbGetOverlay(store, userId, key)

\* A test that leaves out the documents without an overlay.
NeedsRecalculationOfPatchOnly(overlay, key, existenceStateChanged) ==
  /\ key \in existenceStateChanged
  /\ overlay # Null
  /\ IsPatchMutation(overlay.mutation)

\* The test of computeViews: recalculate the overlay of the document.
NeedsRecalculation(overlay, key, existenceStateChanged) ==
  /\ key \in existenceStateChanged
  /\ (overlay = Null \/ IsPatchMutation(overlay.mutation))

\* docs.forEach(...) of computeViews: docs with the overlays applied in
\* place, and recalculateDocuments.
RECURSIVE ComputeViewsLoop(_, _, _, _, _, _, _, _)
ComputeViewsLoop(store, userId, memoizedOverlays, existenceStateChanged, docs, recalculateDocuments, iter, i) ==
  IF i > Len(iter)
    THEN [docs |-> docs, recalculateDocuments |-> recalculateDocuments]
    ELSE
      LET doc == SortedMapGet(docs, iter[i])
          overlay == ComputeViewsOverlay(store, userId, memoizedOverlays,
                                         doc.key)
      IN IF NeedsRecalculation(overlay, doc.key, existenceStateChanged)
           THEN ComputeViewsLoop(store, userId, memoizedOverlays,
                  existenceStateChanged, docs,
                  SortedMapInsert(recalculateDocuments, doc.key, doc),
                  iter, i + 1)
           ELSE IF overlay # Null
             THEN ComputeViewsLoop(store, userId, memoizedOverlays,
                    existenceStateChanged,
                    MapPut(docs, doc.key,
                           MutationApplyToLocalView(overlay.mutation, doc,
                                                    Null).document),
                    recalculateDocuments, iter, i + 1)
             ELSE ComputeViewsLoop(store, userId, memoizedOverlays,
                    existenceStateChanged, docs, recalculateDocuments,
                    iter, i + 1)

\* A copy that leaves the result map as it was created.
ComputeViewsResultsNotInserted(docs, iter, i, results) == results

\* docs.forEach((key, value) => results.insert(key, value))
RECURSIVE ComputeViewsResults(_, _, _, _)
ComputeViewsResults(docs, iter, i, results) ==
  IF i > Len(iter) THEN results
  ELSE ComputeViewsResults(docs, iter, i + 1,
         SortedMapInsert(results, iter[i], SortedMapGet(docs, iter[i])))

\* computeViews(transaction, docs, memoizedOverlays, existenceStateChanged):
\* the map it returns, the store as it leaves it, the keys it recalculated
\* and whether it threw.  The documents of recalculateDocuments are those of
\* docs, so that docs shows what the recalculation applied to them.
ComputeViews(store, userId, queue, docs, memoizedOverlays, existenceStateChanged) ==
  LET loop == ComputeViewsLoop(store, userId, memoizedOverlays,
                existenceStateChanged, docs, EmptyMap, GetIterator(docs), 1)
      saved == RecalculateAndSaveOverlays(store, userId, queue,
                                          loop.recalculateDocuments)
      after == [k \in DOMAIN loop.docs |->
                  IF k \in DOMAIN loop.recalculateDocuments
                    THEN SortedMapGet(saved.docs, k)
                    ELSE loop.docs[k]]
  IN [results |-> IF saved.threw THEN EmptyMap
                  ELSE ComputeViewsResults(after, GetIterator(after), 1,
                                           EmptyMap),
      store |-> saved.store,
      recalculated |-> DOMAIN loop.recalculateDocuments,
      threw |-> saved.threw]

\* getLocalViewOfDocuments(transaction, docs, existenceStateChanged)
GetLocalViewOfDocuments(store, userId, queue, docs, existenceStateChanged) ==
  ComputeViews(store, userId, queue, docs, EmptyMap, existenceStateChanged)

\* A getDocuments that gives every key as one whose existence state changed.
GetDocumentsWithKeysChanged(store, userId, queue, remote, keys) ==
  GetLocalViewOfDocuments(store, userId, queue, GetEntries(remote, keys), keys)

\* getDocuments(transaction, keys): the remote entries of the keys, given
\* to getLocalViewOfDocuments with an empty set.
GetDocuments(store, userId, queue, remote, keys) ==
  GetLocalViewOfDocuments(store, userId, queue, GetEntries(remote, keys), {})

\* A recalculation that starts from the local views of the documents, the
\* stored overlays applied, in place of the remote documents.
RecalculateAndSaveOverlaysForLocalViews(store, userId, queue, remote, documentKeys) ==
  RecalculateAndSaveOverlays(store, userId, queue,
    GetLocalViewOfDocuments(store, userId, queue,
                            GetEntries(remote, documentKeys), {}).results)

\* recalculateAndSaveOverlaysForDocumentKeys(transaction, documentKeys)
RecalculateAndSaveOverlaysForDocumentKeys(store, userId, queue, remote, documentKeys) ==
  RecalculateAndSaveOverlays(store, userId, queue,
                             GetEntries(remote, documentKeys))

\* A base document read that always goes to the remote document cache.
GetBaseDocumentFromRemote(remote, key, overlay) ==
  [document |-> GetEntry(remote, key), remoteRead |-> TRUE]

\* getBaseDocument(transaction, key, overlay): the base document, and
\* whether remoteDocumentCache.getEntry was called for it.
GetBaseDocument(remote, key, overlay) ==
  IF overlay = Null \/ IsPatchMutation(overlay.mutation)
    THEN [document |-> GetEntry(remote, key), remoteRead |-> TRUE]
    ELSE [document |-> NewInvalidDocument(key), remoteRead |-> FALSE]

\* getDocument(transaction, key): the document it returns, and whether it
\* read the remote document cache.
GetDocument(store, userId, remote, key) ==
  LET overlay == IndexedDbGetOverlay(store, userId, key)
      base == GetBaseDocument(remote, key, overlay)
  IN [document |->
        IF overlay # Null
          THEN MutationApplyToLocalView(overlay.mutation, base.document,
                                        Null).document
          ELSE base.document,
      remoteRead |-> base.remoteRead]

\* A collection query: the documents of the collection at path, with an
\* optional equality filter [field, value].
Query(path, filter) == [path |-> path, collectionGroup |-> Null, filter |-> filter]

\* new IndexOffset(readTime, documentKey, largestBatchId)
IndexOffset(readTime, largestBatchId) ==
  [readTime |-> readTime, largestBatchId |-> largestBatchId]

\* queryMatches(query, document): a found document of the collection that
\* passes the filter.
QueryMatches(query, document) ==
  /\ document.documentType = "FOUND"
  /\ GetCollectionPath(document.key) = query.path
  /\ \/ query.filter = Null
     \/ /\ query.filter.field \in DOMAIN document.data
        /\ document.data[query.filter.field] = query.filter.value

\* The read time of the documents in the remote document cache.
RemoteReadTime == 1

\* RemoteDocumentCache.getDocumentsMatchingQuery(transaction, query,
\* sinceReadTime): the documents read after sinceReadTime that match.
RemoteGetDocumentsMatchingQuery(remote, query, sinceReadTime) ==
  LET keys == {k \in DOMAIN remote :
                 QueryMatches(query, remote[k]) /\ RemoteReadTime > sinceReadTime}
  IN [k \in keys |-> remote[k]]

\* The Map that getOverlaysForCollection returns: result.set(overlay.getKey(),
\* overlay), keyed by the key object of each overlay.
OverlayMap(overlays) ==
  [object \in {KeyObject(GetKey(overlays[i]), "overlay") : i \in 1..Len(overlays)} |->
     overlays[CHOOSE i \in 1..Len(overlays) : GetKey(overlays[i]) = object.path]]

\* A loop that inserts no document for the overlays.
InsertOverlayKeysSkipped(r, overlays, i) == r

\* overlays.forEach(...) of getDocumentsMatchingCollectionQuery: an invalid
\* document is inserted under the key object of every overlay whose key
\* remoteDocuments does not hold.  r.documents is remoteDocuments and
\* r.keys gives the key object it holds for each path.
RECURSIVE InsertOverlayKeys(_, _, _)
InsertOverlayKeys(r, overlays, i) ==
  IF i > Len(overlays) THEN r
  ELSE
    LET key == GetKey(overlays[i])
    IN IF SortedMapGet(r.documents, key) = Null
         THEN InsertOverlayKeys(
                [documents |-> SortedMapInsert(r.documents, key,
                                               NewInvalidDocument(key)),
                 keys |-> MapPut(r.keys, key, KeyObject(key, "overlay"))],
                overlays, i + 1)
         ELSE InsertOverlayKeys(r, overlays, i + 1)

\* remoteDocuments.forEach(...) of getDocumentsMatchingCollectionQuery: the
\* overlay found for the key object is applied, and the document is put in
\* results when it matches.
RECURSIVE CollectionQueryLoop(_, _, _, _, _, _)
CollectionQueryLoop(query, r, overlays, iter, i, results) ==
  IF i > Len(iter) THEN results
  ELSE
    LET key == iter[i]
        overlay == MapGet(overlays, r.keys[key])
        document ==
          IF overlay # Undefined
            THEN MutationApplyToLocalView(overlay.mutation, r.documents[key],
                                          Null).document
            ELSE r.documents[key]
    IN CollectionQueryLoop(query, r, overlays, iter, i + 1,
         IF QueryMatches(query, document)
           THEN SortedMapInsert(results, key, document)
           ELSE results)

\* getDocumentsMatchingCollectionQuery(transaction, query, offset)
GetDocumentsMatchingCollectionQuery(store, userId, remote, query, offset) ==
  LET queryResults == RemoteGetDocumentsMatchingQuery(remote, query,
                                                      offset.readTime)
      overlays == IndexedDbGetOverlaysForCollection(store, userId, query.path,
                                                    offset.largestBatchId)
      r == InsertOverlayKeys(
             [documents |-> queryResults,
              keys |-> [k \in DOMAIN queryResults |-> KeyObject(k, "remote")]],
             overlays, 1)
  IN CollectionQueryLoop(query, r, OverlayMap(overlays),
                         GetIterator(r.documents), 1, EmptyMap)

\* isDocumentQuery(query): the path is a document path, and the query has
\* neither a collection group nor a filter.
IsDocumentQuery(query) ==
  /\ Len(query.path) % 2 = 0
  /\ query.collectionGroup = Null
  /\ query.filter = Null

\* A document query that returns the document whatever its type.
GetDocumentsMatchingDocumentQueryOfAnyType(store, userId, remote, docPath) ==
  LET document == GetDocument(store, userId, remote, docPath).document
  IN SortedMapInsert(EmptyMap, document.key, document)

\* getDocumentsMatchingDocumentQuery(transaction, docPath)
GetDocumentsMatchingDocumentQuery(store, userId, remote, docPath) ==
  LET document == GetDocument(store, userId, remote, docPath).document
  IN IF document.documentType = "FOUND"
       THEN SortedMapInsert(EmptyMap, document.key, document)
       ELSE EmptyMap

\* getDocumentsMatchingQuery(transaction, query, offset), for the queries
\* of the model, none of which has a collection group.
GetDocumentsMatchingQuery(store, userId, remote, query, offset) ==
  IF IsDocumentQuery(query)
    THEN GetDocumentsMatchingDocumentQuery(store, userId, remote, query.path)
    ELSE GetDocumentsMatchingCollectionQuery(store, userId, remote, query,
                                             offset)

(***************************************************************************)
(* State.                                                                  *)
(***************************************************************************)
VARIABLES
  impl,                 \* the injected DocumentOverlayCache: "memory" or "indexeddb"
  overlays,             \* MemoryDocumentOverlayCache.overlays
  overlayByBatchId,     \* MemoryDocumentOverlayCache.overlayByBatchId
  documentOverlayStore, \* the rows of the DbDocumentOverlay store
  op,                   \* the last call: its name, and whether it threw
  tracked,              \* whether the write history is kept
  history,              \* the last writes, while they follow the scenario
                        \* save(b1, {k: m1}); save(b2, {k: m2}); remove(b1)
  remoteDocuments,      \* the RemoteDocumentCache: a document for each key
  mutationQueue         \* the MutationQueue: its batches in batch id order

cacheVars == <<impl, overlays, overlayByBatchId, documentOverlayStore>>
viewVars == <<remoteDocuments, mutationQueue>>
vars ==
  <<impl, overlays, overlayByBatchId, documentOverlayStore, op, tracked,
    history, remoteDocuments, mutationQueue>>

\* The user the persistent cache was created for (forUser).
CacheUserId == "alice"

(***************************************************************************)
(* The DocumentOverlayCache contract, dispatched on the injected           *)
(* implementation.                                                         *)
(***************************************************************************)
GetOverlay(key) ==
  IF impl = "memory" THEN MemoryGetOverlay(overlays, key)
  ELSE IndexedDbGetOverlay(documentOverlayStore, CacheUserId, key)

GetOverlaysForCollection(collection, sinceBatchId) ==
  IF impl = "memory"
    THEN MemoryGetOverlaysForCollection(overlays, collection, sinceBatchId)
    ELSE IndexedDbGetOverlaysForCollection(documentOverlayStore, CacheUserId,
                                           collection, sinceBatchId)

GetOverlaysForCollectionGroup(collectionGroup, sinceBatchId, count) ==
  IF impl = "memory"
    THEN MemoryGetOverlaysForCollectionGroup(overlays, collectionGroup,
                                             sinceBatchId, count)
    ELSE IndexedDbGetOverlaysForCollectionGroup(documentOverlayStore,
           CacheUserId, collectionGroup, sinceBatchId, count)

(***************************************************************************)
(* Inputs.                                                                 *)
(***************************************************************************)
\* The maps a caller passes to saveOverlays: each key is mapped to a
\* mutation of that key.
OverlayMaps ==
  UNION { {f \in [S -> UNION {OverlayMutations(k) : k \in S}] :
             \A k \in S : f[k] \in OverlayMutations(k)} : S \in SUBSET Keys }

\* The entries of a map in its iteration order.
Entries(f) ==
  LET ks == SortKeys(DOMAIN f)
  IN [i \in 1..Len(ks) |-> [key |-> ks[i], mutation |-> f[ks[i]]]]

SaveInputs == {Entries(f) : f \in OverlayMaps}

\* The keys LocalDocumentsView is asked about.
ViewKeys ==
  { <<"rooms", "r1", "messages", "m1">>, <<"rooms", "r1", "messages", "m2">> }

\* The documents the remote document cache holds for a key: the first key
\* is unknown to it or found, the other one is unknown.
RemoteDocuments(key) ==
  IF key = <<"rooms", "r1", "messages", "m1">>
    THEN { NewInvalidDocument(key), NewFoundDocument(key, [name |-> "Bob"]) }
    ELSE { NewInvalidDocument(key) }

\* The mutations of the batches written to the mutation queue.
BatchMutations ==
  LET m1 == <<"rooms", "r1", "messages", "m1">>
      m2 == <<"rooms", "r1", "messages", "m2">>
  IN { <<PatchMutation(m1, [city |-> "LA"], {"city"}, "exists")>>,
       <<SetMutation(m1, [name |-> "Al"]), SetMutation(m2, [name |-> "Al"])>> }

\* -1 is "before any batch".
SinceBatchIds == {-1} \cup 1..(MaxBatchId - 1)
Counts == 0..MaxCount

(***************************************************************************)
(* Initial state: both caches are empty.                                   *)
(***************************************************************************)
Init ==
  /\ impl \in {"memory", "indexeddb"}
  /\ overlays = EmptyMap
  /\ overlayByBatchId = EmptyMap
  /\ documentOverlayStore = {}
  /\ op = [name |-> "init", threw |-> FALSE]
  /\ tracked = FALSE
  /\ history = <<>>
  /\ remoteDocuments = [k \in ViewKeys |-> NewInvalidDocument(k)]
  /\ mutationQueue = <<>>

\* The same, with the write history kept.
InitHistory ==
  /\ impl \in {"memory", "indexeddb"}
  /\ overlays = EmptyMap
  /\ overlayByBatchId = EmptyMap
  /\ documentOverlayStore = {}
  /\ op = [name |-> "init", threw |-> FALSE]
  /\ tracked = TRUE
  /\ history = <<>>
  /\ remoteDocuments = [k \in ViewKeys |-> NewInvalidDocument(k)]
  /\ mutationQueue = <<>>

(***************************************************************************)
(* The write history kept for the overwrite-then-remove scenario.          *)
(***************************************************************************)
HistoryAfterSave(largestBatchId, entries) ==
  IF ~tracked \/ Len(entries) # 1 \/ entries[1].mutation = Null THEN <<>>
  ELSE LET call == [name |-> "saveOverlays", largestBatchId |-> largestBatchId,
                    key |-> entries[1].key, mutation |-> entries[1].mutation]
       IN IF /\ Len(history) = 1
             /\ history[1].key = call.key
             /\ history[1].largestBatchId # largestBatchId
            THEN <<history[1], call>>
            ELSE <<call>>

HistoryAfterRemove(batchId) ==
  IF tracked /\ Len(history) = 2 /\ history[1].largestBatchId = batchId
    THEN Append(history, [name |-> "removeOverlaysForBatchId",
                          batchId |-> batchId])
    ELSE <<>>

(***************************************************************************)
(* The operations of the overlay cache, one transaction each.              *)
(***************************************************************************)
\* With impl = "both", the call is made on a cache of each implementation.
\* A call on the persistent cache that throws leaves the rows it put to the
\* owner of the transaction, who aborts it or not.
SaveOverlays(largestBatchId, entries) ==
  LET m == MemorySaveOverlays(
             [overlays |-> overlays, overlayByBatchId |-> overlayByBatchId,
              threw |-> FALSE], largestBatchId, entries)
      saved == IndexedDbSaveOverlays(documentOverlayStore, CacheUserId,
                                     largestBatchId, entries)
      threw == IF impl = "memory" THEN m.threw
               ELSE IF impl = "indexeddb" THEN IndexedDbSaveOverlaysThrew(entries)
               ELSE m.threw \/ IndexedDbSaveOverlaysThrew(entries)
  IN /\ IF impl \in {"memory", "both"}
          THEN /\ overlays' = m.overlays
               /\ overlayByBatchId' = m.overlayByBatchId
          ELSE UNCHANGED <<overlays, overlayByBatchId>>
     /\ IF impl \in {"indexeddb", "both"}
          THEN documentOverlayStore' \in
                 IF IndexedDbSaveOverlaysThrew(entries)
                   THEN {documentOverlayStore, saved} ELSE {saved}
          ELSE UNCHANGED documentOverlayStore
     /\ op' = [name |-> "saveOverlays", threw |-> threw]
     /\ history' = HistoryAfterSave(largestBatchId, entries)
     /\ UNCHANGED <<impl, tracked, viewVars>>

RemoveOverlaysForBatchId(batchId) ==
  LET m == MemoryRemoveOverlaysForBatchId(
             [overlays |-> overlays, overlayByBatchId |-> overlayByBatchId,
              threw |-> FALSE], batchId)
  IN /\ IF impl \in {"memory", "both"}
          THEN /\ overlays' = m.overlays
               /\ overlayByBatchId' = m.overlayByBatchId
          ELSE UNCHANGED <<overlays, overlayByBatchId>>
     /\ IF impl \in {"indexeddb", "both"}
          THEN documentOverlayStore' =
                 IndexedDbRemoveOverlaysForBatchId(documentOverlayStore,
                                                   CacheUserId, batchId)
          ELSE UNCHANGED documentOverlayStore
     /\ op' = [name |-> "removeOverlaysForBatchId", threw |-> FALSE]
     /\ history' = HistoryAfterRemove(batchId)
     /\ UNCHANGED <<impl, tracked, viewVars>>

\* A read returns, for each of its arguments, the value of the operator of
\* the same name in the current state, and leaves the cache as it is.  It
\* is no step of the write scenario.
GetOverlayCall ==
  /\ op' = [name |-> "getOverlay", threw |-> FALSE]
  /\ history' = <<>>
  /\ UNCHANGED <<cacheVars, tracked, viewVars>>

GetOverlaysForCollectionCall ==
  /\ op' = [name |-> "getOverlaysForCollection", threw |-> FALSE]
  /\ history' = <<>>
  /\ UNCHANGED <<cacheVars, tracked, viewVars>>

GetOverlaysForCollectionGroupCall ==
  /\ op' = [name |-> "getOverlaysForCollectionGroup", threw |-> FALSE]
  /\ history' = <<>>
  /\ UNCHANGED <<cacheVars, tracked, viewVars>>

Next ==
  \/ \E b \in BatchIds, entries \in SaveInputs : SaveOverlays(b, entries)
  \/ \E b \in BatchIds : RemoveOverlaysForBatchId(b)
  \/ GetOverlayCall
  \/ GetOverlaysForCollectionCall
  \/ GetOverlaysForCollectionGroupCall

Spec == Init /\ [][Next]_vars

\* The overlay cache with its write history.
SpecHistory == InitHistory /\ [][Next]_vars

\* A cache of each implementation, both empty and given the same calls.
InitBoth ==
  /\ impl = "both"
  /\ overlays = EmptyMap
  /\ overlayByBatchId = EmptyMap
  /\ documentOverlayStore = {}
  /\ op = [name |-> "init", threw |-> FALSE]
  /\ tracked = FALSE
  /\ history = <<>>
  /\ remoteDocuments = [k \in ViewKeys |-> NewInvalidDocument(k)]
  /\ mutationQueue = <<>>

\* The saves given to both caches: maps over the first and the last key.
BothSaveInputs ==
  {entries \in SaveInputs :
     \A i \in 1..Len(entries) :
       entries[i].key \in {<<"rooms", "r1">>, <<"users", "u1", "messages", "m3">>}}

NextBoth ==
  \/ \E b \in BatchIds, entries \in BothSaveInputs : SaveOverlays(b, entries)
  \/ \E b \in BatchIds : RemoveOverlaysForBatchId(b)
  \/ GetOverlayCall
  \/ GetOverlaysForCollectionCall
  \/ GetOverlaysForCollectionGroupCall

SpecBoth == InitBoth /\ [][NextBoth]_vars

(***************************************************************************)
(* Two persistent caches, created by forUser for two users, over one       *)
(* store.  op keeps the user of the write.                                 *)
(***************************************************************************)
UserIds == {"alice", "bob"}

InitUsers == Init /\ impl = "indexeddb"

SaveOverlaysAs(userId, largestBatchId, entries) ==
  /\ documentOverlayStore' \in
       IF IndexedDbSaveOverlaysThrew(entries)
         THEN {documentOverlayStore,
               IndexedDbSaveOverlays(documentOverlayStore, userId,
                                     largestBatchId, entries)}
         ELSE {IndexedDbSaveOverlays(documentOverlayStore, userId,
                                     largestBatchId, entries)}
  /\ op' = [name |-> "saveOverlays", userId |-> userId,
            threw |-> IndexedDbSaveOverlaysThrew(entries)]
  /\ UNCHANGED <<impl, overlays, overlayByBatchId, tracked, history, viewVars>>

RemoveOverlaysForBatchIdAs(userId, batchId) ==
  /\ documentOverlayStore' =
       IndexedDbRemoveOverlaysForBatchId(documentOverlayStore, userId, batchId)
  /\ op' = [name |-> "removeOverlaysForBatchId", userId |-> userId,
            threw |-> FALSE]
  /\ UNCHANGED <<impl, overlays, overlayByBatchId, tracked, history, viewVars>>

\* The saves of the two users: set mutations for the first and the last key.
UsersSaveInputs ==
  {entries \in BothSaveInputs :
     \A i \in 1..Len(entries) :
       entries[i].mutation # Null /\ entries[i].mutation.type = "set"}

NextUsers ==
  \/ \E userId \in UserIds, b \in BatchIds, entries \in UsersSaveInputs :
       SaveOverlaysAs(userId, b, entries)
  \/ \E userId \in UserIds, b \in BatchIds :
       RemoveOverlaysForBatchIdAs(userId, b)

SpecUsers == InitUsers /\ [][NextUsers]_vars

(***************************************************************************)
(* LocalDocumentsView over the persistent overlay cache, with the writes   *)
(* of its collaborators: the mutation queue and the remote document cache. *)
(***************************************************************************)
InitView == Init /\ impl = "indexeddb"

\* MutationQueue.addMutationBatch: batch ids are strictly increasing.
AddMutationBatch(batchId, mutations) ==
  /\ \A i \in 1..Len(mutationQueue) : mutationQueue[i].batchId < batchId
  /\ mutationQueue' = Append(mutationQueue, MutationBatch(batchId, mutations))
  /\ op' = [name |-> "addMutationBatch", threw |-> FALSE]
  /\ UNCHANGED <<cacheVars, tracked, history, remoteDocuments>>

\* MutationQueue.removeMutationBatch: a batch is acknowledged or rejected.
RemoveMutationBatch(batchId) ==
  /\ \E i \in 1..Len(mutationQueue) : mutationQueue[i].batchId = batchId
  /\ mutationQueue' =
       SelectSeq(mutationQueue, LAMBDA batch : batch.batchId # batchId)
  /\ op' = [name |-> "removeMutationBatch", threw |-> FALSE]
  /\ UNCHANGED <<cacheVars, tracked, history, remoteDocuments>>

\* A remote event changes the document the remote document cache holds.
SetRemoteDocument(key, document) ==
  /\ remoteDocuments[key] # document
  /\ remoteDocuments' = [remoteDocuments EXCEPT ![key] = document]
  /\ op' = [name |-> "setRemoteDocument", threw |-> FALSE]
  /\ UNCHANGED <<cacheVars, tracked, history, mutationQueue>>

\* recalculateAndSaveOverlaysForDocumentKeys(transaction, documentKeys)
RecalculateCall(documentKeys) ==
  LET r == RecalculateAndSaveOverlaysForDocumentKeys(documentOverlayStore,
             CacheUserId, mutationQueue, remoteDocuments, documentKeys)
  IN /\ op' = [name |-> "recalculateAndSaveOverlaysForDocumentKeys",
                keys |-> documentKeys, threw |-> r.threw]
     /\ documentOverlayStore' = r.store
     /\ UNCHANGED <<impl, overlays, overlayByBatchId, tracked, history,
                    viewVars>>

\* getLocalViewOfDocuments(transaction, docs, existenceStateChanged), docs
\* being the entries of the remote document cache for keys.  op keeps the
\* keys whose overlay was recalculated.
GetLocalViewOfDocumentsCall(keys, existenceStateChanged) ==
  LET r == GetLocalViewOfDocuments(documentOverlayStore, CacheUserId,
             mutationQueue, GetEntries(remoteDocuments, keys),
             existenceStateChanged)
  IN /\ op' = [name |-> "getLocalViewOfDocuments", keys |-> r.recalculated,
                threw |-> r.threw]
     /\ documentOverlayStore' = r.store
     /\ UNCHANGED <<impl, overlays, overlayByBatchId, tracked, history,
                    viewVars>>

DocumentKeySets == (SUBSET ViewKeys) \ {{}}

NextView ==
  \/ \E b \in BatchIds, mutations \in BatchMutations :
       AddMutationBatch(b, mutations)
  \/ \E b \in BatchIds : RemoveMutationBatch(b)
  \/ \E k \in ViewKeys : \E document \in RemoteDocuments(k) :
       SetRemoteDocument(k, document)
  \/ \E b \in BatchIds : RemoveOverlaysForBatchId(b)
  \/ \E documentKeys \in DocumentKeySets : RecalculateCall(documentKeys)
  \/ \E keys \in DocumentKeySets : \E existenceStateChanged \in SUBSET keys :
       GetLocalViewOfDocumentsCall(keys, existenceStateChanged)

SpecView == InitView /\ [][NextView]_vars

\* The collection queries and offsets of the model.
Queries ==
  {Query(<<"rooms", "r1", "messages">>, filter) :
     filter \in {Null, [field |-> "name", value |-> "Al"],
                 [field |-> "name", value |-> "Bob"],
                 [field |-> "city", value |-> "LA"]}}

Offsets ==
  {IndexOffset(readTime, largestBatchId) :
     readTime \in {0, RemoteReadTime}, largestBatchId \in SinceBatchIds}

\* getDocument(transaction, key): it reads the overlay cache and the remote
\* document cache and assigns to neither.
GetDocumentCall(key) ==
  /\ op' = [name |-> "getDocument", threw |-> FALSE]
  /\ UNCHANGED <<cacheVars, tracked, history, viewVars>>

\* getDocuments(transaction, keys): the store is left as computeViews
\* leaves it.
GetDocumentsCall(keys) ==
  LET r == GetDocuments(documentOverlayStore, CacheUserId, mutationQueue,
                        remoteDocuments, keys)
  IN /\ op' = [name |-> "getDocuments", threw |-> r.threw]
     /\ documentOverlayStore' = r.store
     /\ UNCHANGED <<impl, overlays, overlayByBatchId, tracked, history,
                    viewVars>>

\* getDocumentsMatchingQuery(transaction, query, offset): it reads the
\* remote document cache and the overlay cache and assigns to neither.
GetDocumentsMatchingQueryCall(query, offset) ==
  /\ op' = [name |-> "getDocumentsMatchingQuery", threw |-> FALSE]
  /\ UNCHANGED <<cacheVars, tracked, history, viewVars>>

\* The read scenario: batches are queued, remote documents change and
\* overlays are recalculated over the persistent cache, or overlays are
\* saved to and removed from the in-memory cache, with the reads of the
\* view and of the cache between them.
NextReads ==
  \/ /\ impl = "indexeddb"
     /\ \/ \E b \in BatchIds, mutations \in BatchMutations :
             AddMutationBatch(b, mutations)
        \/ \E k \in ViewKeys : \E document \in RemoteDocuments(k) :
             SetRemoteDocument(k, document)
        \/ \E documentKeys \in DocumentKeySets : RecalculateCall(documentKeys)
  \/ /\ impl = "memory"
     /\ \/ \E b \in BatchIds, entries \in BothSaveInputs :
             SaveOverlays(b, entries)
        \/ \E b \in BatchIds : RemoveOverlaysForBatchId(b)
  \/ /\ impl = "indexeddb"
     /\ \/ \E k \in ViewKeys : GetDocumentCall(k)
        \/ \E keys \in DocumentKeySets : GetDocumentsCall(keys)
        \/ \E query \in Queries \cup {Query(k, Null) : k \in ViewKeys} :
             \E offset \in {IndexOffset(0, -1), IndexOffset(RemoteReadTime, 1)} :
               GetDocumentsMatchingQueryCall(query, offset)
  \/ GetOverlayCall
  \/ GetOverlaysForCollectionCall
  \/ GetOverlaysForCollectionGroupCall

SpecReads == Init /\ [][NextReads]_vars

\* The overlays the query scenario saves for a key: a set, a delete and a
\* patch of an existing document.
QueryOverlayMutations(key) ==
  { SetMutation(key, [name |-> "Al"]), DeleteMutation(key),
    PatchMutation(key, [city |-> "LA"], {"city"}, "exists") }

\* The query scenario: overlays of every kind are saved for and removed
\* from the persistent cache while remote events change the remote
\* document, so that every pair of remote entry and overlay is met.
NextQuery ==
  \/ \E b \in BatchIds, k \in ViewKeys :
       \E mutation \in QueryOverlayMutations(k) :
         SaveOverlays(b, <<[key |-> k, mutation |-> mutation]>>)
  \/ \E b \in BatchIds : RemoveOverlaysForBatchId(b)
  \/ \E k \in ViewKeys : \E document \in RemoteDocuments(k) :
       SetRemoteDocument(k, document)

SpecQuery == InitView /\ [][NextQuery]_vars

(***************************************************************************)
(* Properties of the overlay cache.                                        *)
(***************************************************************************)
SeqToSet(seq) == {seq[i] : i \in 1..Len(seq)}

\* The keys that have an overlay, as getOverlay tells.
KeysWithOverlay == {k \in Keys : GetOverlay(k) # Null}

\* k is an immediate child document of the collection.
IsImmediateChild(collection, key) ==
  Len(key) = Len(collection) + 1 /\ IsPrefixOf(collection, key)

SingletonSaves == {entries \in SaveInputs : Len(entries) = 1}

\* C1: after saveOverlays(b, {k: m}) with a non-absent m, getOverlay(k)
\* returns the overlay (b, m): for a new key and batch id and for an
\* overwrite, so that getOverlay(k) is the pair saved last.
C1_SaveThenGet ==
  [][\A b \in BatchIds, entries \in SingletonSaves :
       SaveOverlays(b, entries) =>
         (entries[1].mutation # Null =>
            GetOverlay(entries[1].key)' = Overlay(b, entries[1].mutation))]_vars

\* C2: removeOverlaysForBatchId(b) makes getOverlay(k) absent for every key
\* whose overlay had largestBatchId = b and leaves the overlay of every
\* other key as it was (so that removing a batch id without overlays
\* changes nothing).
C2_RemoveExactlyBatch ==
  [][\A b \in BatchIds :
       RemoveOverlaysForBatchId(b) =>
         \A k \in Keys :
           IF GetOverlay(k) # Null /\ GetOverlay(k).largestBatchId = b
             THEN GetOverlay(k)' = Null
             ELSE GetOverlay(k)' = GetOverlay(k)]_vars

\* C3: after saveOverlays(b1, {k: m1}), saveOverlays(b2, {k: m2}) with
\* b2 # b1 and removeOverlaysForBatchId(b1), getOverlay(k) still returns
\* (b2, m2).
C3_OverwriteThenRemoveOld ==
  Len(history) = 3 =>
    GetOverlay(history[2].key) =
      Overlay(history[2].largestBatchId, history[2].mutation)

\* C4: getOverlaysForCollection(c, s) returns exactly the stored overlays
\* of the immediate children of c whose largestBatchId is greater than s,
\* each once and under its own key.
C4_CollectionExact ==
  \A c \in Collections, s \in SinceBatchIds :
    LET result == GetOverlaysForCollection(c, s)
    IN /\ SeqToSet(result) =
            {GetOverlay(k) :
               k \in {x \in KeysWithOverlay :
                        /\ IsImmediateChild(c, x)
                        /\ GetOverlay(x).largestBatchId > s}}
       /\ \A o \in SeqToSet(result) : GetOverlay(GetKey(o)) = o
       /\ Cardinality(SeqToSet(result)) = Len(result)

\* Reached: a read of collection rooms that returns the overlay of rooms/r1
\* and leaves out that of rooms/r1/messages/m1 and that of another
\* collection, and a read that leaves out an overlay of batch id <= s.
C4_Witness ==
  /\ op.name = "getOverlaysForCollection"
  /\ KeysWithOverlay = Keys
  /\ GetOverlay(<<"rooms", "r1", "messages", "m1">>).largestBatchId = 1
  /\ GetOverlay(<<"rooms", "r1", "messages", "m2">>).largestBatchId = 2
  /\ GetOverlaysForCollection(<<"rooms">>, -1) =
       <<GetOverlay(<<"rooms", "r1">>)>>
  /\ GetOverlaysForCollection(<<"rooms", "r1", "messages">>, 1) =
       <<GetOverlay(<<"rooms", "r1", "messages", "m2">>)>>

\* The stored overlays of a collection group.
GroupOverlays(collectionGroup) ==
  {GetOverlay(k) :
     k \in {x \in KeysWithOverlay : GetCollectionGroup(x) = collectionGroup}}

\* The overlays of a result that belong to the batch of its last overlay.
LastBatchGroup(result) ==
  {o \in SeqToSet(result) :
     o.largestBatchId = result[Len(result)].largestBatchId}

\* C5: getOverlaysForCollectionGroup(g, s, n) never splits a batch (of the
\* stored overlays of group g with one batch id, all are returned or none),
\* returns only overlays of group g with largestBatchId > s, and exceeds n
\* only by the last batch being returned whole.
C5_WholeBatches ==
  \A g \in CollectionGroups, s \in SinceBatchIds, n \in Counts :
    LET result == GetOverlaysForCollectionGroup(g, s, n)
        returned == SeqToSet(result)
    IN /\ \A b \in BatchIds :
            LET batch == {o \in GroupOverlays(g) : o.largestBatchId = b}
            IN batch \subseteq returned \/ batch \cap returned = {}
       /\ returned \subseteq {o \in GroupOverlays(g) : o.largestBatchId > s}
       /\ Len(result) > n =>
            Len(result) - Cardinality(LastBatchGroup(result)) < n

\* C6: getOverlaysForCollectionGroup(g, s, n) returns a prefix of the
\* qualifying batch groups in ascending batch id order: no qualifying batch
\* below a returned one is missing, the overlays are in non-decreasing batch
\* id order, the result without its last batch group holds fewer than n
\* overlays, and a result of fewer than n overlays holds every qualifying
\* overlay.
C6_AscendingPrefix ==
  \A g \in CollectionGroups, s \in SinceBatchIds, n \in Counts :
    LET result == GetOverlaysForCollectionGroup(g, s, n)
        returned == SeqToSet(result)
        qualifying == {o \in GroupOverlays(g) : o.largestBatchId > s}
    IN /\ \A o \in returned, q \in qualifying :
            q.largestBatchId < o.largestBatchId => q \in returned
       /\ \A i \in 1..Len(result), j \in 1..Len(result) :
            i < j => result[i].largestBatchId <= result[j].largestBatchId
       /\ result # <<>> =>
            Len(result) - Cardinality(LastBatchGroup(result)) < n
       /\ Len(result) < n => returned = qualifying

(***************************************************************************)
(* Properties of LocalDocumentsView.                                       *)
(***************************************************************************)
\* The batch ids of the queued batches that touch a key.
TouchingBatchIds(key) ==
  {mutationQueue[i].batchId :
     i \in {j \in 1..Len(mutationQueue) : key \in BatchKeys(mutationQueue[j])}}

\* The keys the batch id index of a store holds under a batch id.
KeysIndexedUnder(store, batchId) ==
  LET rows == StoreLoadAll(store, "batchIdOverlayIndex",
                           BatchIdRange(CacheUserId, batchId))
  IN {DecodeResourcePath(rows[i].documentPath) : i \in 1..Len(rows)}

\* The keys of the last call when it was a recalculation that completed:
\* those given to recalculateAndSaveOverlaysForDocumentKeys, or those
\* computeViews gave to recalculateAndSaveOverlays.
RecalculatedKeys ==
  IF /\ op.name \in {"recalculateAndSaveOverlaysForDocumentKeys",
                     "getLocalViewOfDocuments"}
     /\ ~op.threw
    THEN op.keys ELSE {}

\* The base document of a key with a stored overlay applied (or nothing, for
\* no overlay).
ApplyOverlay(overlay, document) ==
  IF overlay = Null THEN document
  ELSE MutationApplyToLocalView(overlay.mutation, document, Null).document

\* A document with batches applied in order.
RECURSIVE ApplyBatches(_, _, _)
ApplyBatches(batches, i, document) ==
  IF i > Len(batches) THEN document
  ELSE ApplyBatches(batches, i + 1,
         ApplyToLocalViewWithFieldMask(batches[i], document,
                                       FieldMask({})).document)

\* The base document of a key with the queued batches that touch the key
\* applied in ascending batch id order.
LocalViewFromQueue(key) ==
  ApplyBatches(SelectSeq(mutationQueue,
                         LAMBDA batch : key \in BatchKeys(batch)),
               1, GetEntry(remoteDocuments, key))

\* The base document of a key with the overlay stored for it applied.
LocalViewFromOverlay(key) ==
  ApplyOverlay(GetOverlay(key), GetEntry(remoteDocuments, key))

\* C7: after recalculateAndSaveOverlays(D) completed, every key of D that a
\* queued batch touches has an overlay whose largestBatchId is the largest
\* batch id of the batches touching it, and the batch id index holds the key
\* under no lower batch id.
C7_LargestTouchingBatch ==
  \A k \in RecalculatedKeys :
    TouchingBatchIds(k) # {} =>
      /\ GetOverlay(k) # Null
      /\ GetOverlay(k).largestBatchId = Max(TouchingBatchIds(k))
      /\ \A b \in BatchIds :
           b < Max(TouchingBatchIds(k)) =>
             k \notin KeysIndexedUnder(documentOverlayStore, b)

\* C8: after recalculateAndSaveOverlays(D) completed, for every key of D
\* (touched by a batch or not), the stored overlay applied to the base
\* document gives the document that the queued batches touching the key
\* give.
C8_OverlayMatchesQueue ==
  \A k \in RecalculatedKeys : LocalViewFromOverlay(k) = LocalViewFromQueue(k)

\* C9: for a key of existenceStateChanged whose stored overlay is absent or
\* a patch, computeViews recalculates the overlay; when the call completes
\* and a batch touching the key is queued, the cache then holds an overlay
\* for the key, with the batch id of that batch when it is the only one, and
\* the document returned is the remote document with the queued mutations
\* applied.
C9_PatchPreconditionFlip ==
  \A keys \in DocumentKeySets : \A existenceStateChanged \in SUBSET keys :
    LET r == GetLocalViewOfDocuments(documentOverlayStore, CacheUserId,
               mutationQueue, GetEntries(remoteDocuments, keys),
               existenceStateChanged)
    IN \A k \in existenceStateChanged :
         (GetOverlay(k) = Null \/ IsPatchMutation(GetOverlay(k).mutation)) =>
           /\ k \in r.recalculated
           /\ (~r.threw /\ TouchingBatchIds(k) # {}) =>
                /\ IndexedDbGetOverlay(r.store, CacheUserId, k) # Null
                /\ Cardinality(TouchingBatchIds(k)) = 1 =>
                     IndexedDbGetOverlay(r.store, CacheUserId, k).largestBatchId
                       \in TouchingBatchIds(k)
                /\ SortedMapGet(r.results, k) = LocalViewFromQueue(k)

\* Reached: computeViews recalculated the first key, whose remote document
\* is found and which one queued patch touches; the cache holds the patch
\* under the batch id of that batch and the local view has both fields.
C9_Witness ==
  /\ op.name = "getLocalViewOfDocuments"
  /\ ~op.threw
  /\ <<"rooms", "r1", "messages", "m1">> \in op.keys
  /\ Len(mutationQueue) = 1
  /\ mutationQueue[1].batchId = 2
  /\ remoteDocuments[<<"rooms", "r1", "messages", "m1">>] =
       NewFoundDocument(<<"rooms", "r1", "messages", "m1">>, [name |-> "Bob"])
  /\ GetOverlay(<<"rooms", "r1", "messages", "m1">>) =
       Overlay(2, PatchMutation(<<"rooms", "r1", "messages", "m1">>,
                                [city |-> "LA"], {"city"}, "exists"))
  /\ LocalViewFromOverlay(<<"rooms", "r1", "messages", "m1">>).data =
       [name |-> "Bob", city |-> "LA"]

\* C10: the map computeViews returns has an entry for the key of every input
\* document and for no other key; the entry is the input document with the
\* queued batches applied when the document was recalculated, and with its
\* overlay applied (or as it was, without overlay) otherwise.
C10_ResultIsLocalView ==
  \A keys \in DocumentKeySets : \A existenceStateChanged \in SUBSET keys :
    LET r == GetLocalViewOfDocuments(documentOverlayStore, CacheUserId,
               mutationQueue, GetEntries(remoteDocuments, keys),
               existenceStateChanged)
    IN ~r.threw =>
         /\ DOMAIN r.results = keys
         /\ \A k \in keys :
              r.results[k] = IF k \in r.recalculated
                               THEN LocalViewFromQueue(k)
                               ELSE LocalViewFromOverlay(k)

\* Reached: computeViews returned after it recalculated the first key, while
\* the second key has an overlay that computeViews applies.
C10_Witness ==
  /\ op.name = "getLocalViewOfDocuments"
  /\ ~op.threw
  /\ op.keys = {<<"rooms", "r1", "messages", "m1">>}
  /\ GetOverlay(<<"rooms", "r1", "messages", "m2">>) # Null
  /\ LocalViewFromOverlay(<<"rooms", "r1", "messages", "m2">>).documentType =
       "FOUND"
  /\ TouchingBatchIds(<<"rooms", "r1", "messages", "m1">>) # {}

\* The overlay stored for a key when the query's offset lets it through,
\* else null.
OverlayAfter(key, offset) ==
  IF GetOverlay(key) # Null /\ GetOverlay(key).largestBatchId > offset.largestBatchId
    THEN GetOverlay(key) ELSE Null

\* C11: a key that is an immediate child of query.path, that the remote
\* document cache did not return and that has an overlay with largestBatchId
\* > offset.largestBatchId whose mutation turns a fresh invalid document
\* into one that matches the query, is returned by the collection query
\* with that document.
C11_OverlayOnlyDocumentReturned ==
  \A query \in Queries : \A offset \in Offsets :
    LET result == GetDocumentsMatchingCollectionQuery(documentOverlayStore,
                    CacheUserId, remoteDocuments, query, offset)
        returned == RemoteGetDocumentsMatchingQuery(remoteDocuments, query,
                                                    offset.readTime)
    IN \A k \in Keys :
         LET overlaid == ApplyOverlay(OverlayAfter(k, offset),
                                      NewInvalidDocument(k))
         IN (/\ IsImmediateChild(query.path, k)
             /\ k \notin DOMAIN returned
             /\ OverlayAfter(k, offset) # Null
             /\ QueryMatches(query, overlaid)) =>
              /\ k \in DOMAIN result
              /\ result[k] = overlaid

\* Reached: the second key has no remote document and an overlay that sets
\* its name; the query for that name returns it with the overlaid content.
C11_Witness ==
  LET k == <<"rooms", "r1", "messages", "m2">>
      result == GetDocumentsMatchingCollectionQuery(documentOverlayStore,
                  CacheUserId, remoteDocuments,
                  Query(<<"rooms", "r1", "messages">>,
                        [field |-> "name", value |-> "Al"]),
                  IndexOffset(0, -1))
  IN /\ remoteDocuments[k].documentType = "INVALID"
     /\ GetOverlay(k) # Null
     /\ k \in DOMAIN result
     /\ result[k] = NewFoundDocument(k, [name |-> "Al"])

\* C12: every (key, doc) a collection query returns is the document of the
\* key after its overlay (when one with largestBatchId >
\* offset.largestBatchId is stored) has been applied, and that document
\* matches the query; a remote document that matches and whose overlay makes
\* it stop matching is not returned.
C12_ResultsMatchAfterOverlay ==
  \A query \in Queries : \A offset \in Offsets :
    LET result == GetDocumentsMatchingCollectionQuery(documentOverlayStore,
                    CacheUserId, remoteDocuments, query, offset)
        returned == RemoteGetDocumentsMatchingQuery(remoteDocuments, query,
                                                    offset.readTime)
        base(k) == IF k \in DOMAIN returned THEN returned[k]
                   ELSE NewInvalidDocument(k)
        overlaid(k) == ApplyOverlay(OverlayAfter(k, offset), base(k))
    IN /\ \A k \in DOMAIN result :
            result[k] = overlaid(k) /\ QueryMatches(query, overlaid(k))
       /\ \A k \in DOMAIN returned :
            ~QueryMatches(query, overlaid(k)) => k \notin DOMAIN result

\* The contents a remote document cache can have for the keys of the view.
RemoteContents ==
  [ViewKeys -> UNION {{NewInvalidDocument(k), NewNoDocument(k),
                       NewFoundDocument(k, [name |-> "Bob"]),
                       NewFoundDocument(k, [city |-> "NY"])} : k \in ViewKeys}]

C14_SameReads ==
  /\ \A k \in Keys :
       MemoryGetOverlay(overlays, k)
         = IndexedDbGetOverlay(documentOverlayStore, CacheUserId, k)
  /\ \A c \in Collections, s \in SinceBatchIds :
       SeqToSet(MemoryGetOverlaysForCollection(overlays, c, s))
         = SeqToSet(IndexedDbGetOverlaysForCollection(documentOverlayStore,
                                                      CacheUserId, c, s))
  /\ \A g \in CollectionGroups, s \in SinceBatchIds, n \in Counts :
       SeqToSet(MemoryGetOverlaysForCollectionGroup(overlays, g, s, n))
         = SeqToSet(IndexedDbGetOverlaysForCollectionGroup(
                      documentOverlayStore, CacheUserId, g, s, n))

\* The result of every read a user's persistent cache can be asked for,
\* over a store.
ReadsOf(store, userId) ==
  [getOverlay |->
     [k \in Keys |-> IndexedDbGetOverlay(store, userId, k)],
   getOverlaysForCollection |->
     [c \in Collections, s \in SinceBatchIds |->
        IndexedDbGetOverlaysForCollection(store, userId, c, s)],
   getOverlaysForCollectionGroup |->
     [g \in CollectionGroups, s \in SinceBatchIds, n \in Counts |->
        IndexedDbGetOverlaysForCollectionGroup(store, userId, g, s, n)]]

\* The rows of the store written for a user.
RowsOf(store, userId) == {row \in store : row.userId = userId}

\* C15: a saveOverlays or removeOverlaysForBatchId made through the
\* persistent cache of one user changes the result of no getOverlay,
\* getOverlaysForCollection or getOverlaysForCollectionGroup made through
\* the cache of another user over the same store: every read of a user is
\* the read over that user's rows alone, and a write of another user leaves
\* these rows as they are.
C15_UserIsolation ==
  /\ [](\A userId \in UserIds :
         ReadsOf(documentOverlayStore, userId)
           = ReadsOf(RowsOf(documentOverlayStore, userId), userId))
  /\ [][\A userId \in UserIds :
          (/\ op'.name \in {"saveOverlays", "removeOverlaysForBatchId"}
           /\ op'.userId # userId) =>
            RowsOf(documentOverlayStore, userId)'
              = RowsOf(documentOverlayStore, userId)]_vars

\* Reached: the first user saved, and both users hold an overlay for
\* rooms/r1, under adjacent batch ids, and one for the other key, under the
\* same batch id.
C15_Witness ==
  LET r1 == <<"rooms", "r1">>
      m3 == <<"users", "u1", "messages", "m3">>
  IN /\ op.name = "saveOverlays" /\ op.userId = "alice" /\ ~op.threw
     /\ IndexedDbGetOverlay(documentOverlayStore, "alice", r1)
          = Overlay(1, SetMutation(r1, [name |-> "Bob"]))
     /\ IndexedDbGetOverlay(documentOverlayStore, "bob", r1)
          = Overlay(2, SetMutation(r1, [name |-> "Bob"]))
     /\ IndexedDbGetOverlay(documentOverlayStore, "alice", m3)
          = Overlay(1, SetMutation(m3, [name |-> "Bob"]))
     /\ IndexedDbGetOverlay(documentOverlayStore, "bob", m3)
          = Overlay(1, SetMutation(m3, [name |-> "Bob"]))

\* The saves that hold an absent mutation.
SavesWithAbsentMutation ==
  {entries \in SaveInputs :
     \E i \in 1..Len(entries) : entries[i].mutation = Null}

\* The batch ids under which the batch id index of the cache holds a key.
IndexedUnder(key) ==
  IF impl = "memory"
    THEN {b \in DOMAIN overlayByBatchId : key \in overlayByBatchId[b].keys}
    ELSE {b \in BatchIds : key \in KeysIndexedUnder(documentOverlayStore, b)}

\* C16: saveOverlays(b, map) skips an entry (k, m) whose mutation m is
\* absent: the overlay stored for k and the batch ids k is indexed under
\* stay as they were, and every other entry (k2, m2) of the map is saved as
\* the overlay (b, m2); in both cache implementations.
C16_AbsentMutationSkipped ==
  [][\A b \in BatchIds, entries \in SavesWithAbsentMutation :
       SaveOverlays(b, entries) =>
         \A i \in 1..Len(entries) :
           IF entries[i].mutation = Null
             THEN /\ GetOverlay(entries[i].key)' = GetOverlay(entries[i].key)
                  /\ IndexedUnder(entries[i].key)' = IndexedUnder(entries[i].key)
             ELSE GetOverlay(entries[i].key)' = Overlay(b, entries[i].mutation)]_vars

\* The memoized overlays given to computeViews: none, or a patch or a set
\* for the first key.
MemoizedOverlayMaps ==
  LET m1 == <<"rooms", "r1", "messages", "m1">>
  IN { EmptyMap,
       [k \in {m1} |-> Overlay(1, PatchMutation(m1, [city |-> "LA"], {"city"},
                                                "exists"))],
       [k \in {m1} |-> Overlay(1, SetMutation(m1, [name |-> "Zed"]))] }

\* C17: with the remote document cache and the mutation queue unchanged, a
\* second computeViews call with the same base documents, memoized overlays
\* and existenceStateChanged returns the document map the first call
\* returned and leaves the overlay cache as the first call left it.
C17_ComputeViewsIdempotent ==
  \A keys \in DocumentKeySets : \A existenceStateChanged \in SUBSET keys :
    \A memoizedOverlays \in MemoizedOverlayMaps :
      LET docs == GetEntries(remoteDocuments, keys)
          first == ComputeViews(documentOverlayStore, CacheUserId,
                     mutationQueue, docs, memoizedOverlays,
                     existenceStateChanged)
          second == ComputeViews(first.store, CacheUserId, mutationQueue,
                      docs, memoizedOverlays, existenceStateChanged)
      IN /\ second.threw = first.threw
         /\ second.results = first.results
         /\ second.store = first.store

\* C18: with the remote document cache and the mutation queue unchanged, a
\* second run of recalculateAndSaveOverlaysForDocumentKeys(keys) leaves the
\* overlay cache (each overlay's mutation and largestBatchId, which is also
\* what the batch id index is read from) as the first run left it, and
\* throws exactly when the first run threw.
C18_RecalculationIdempotent ==
  \A documentKeys \in DocumentKeySets :
    LET first == RecalculateAndSaveOverlaysForDocumentKeys(
                   documentOverlayStore, CacheUserId, mutationQueue,
                   remoteDocuments, documentKeys)
        second == RecalculateAndSaveOverlaysForDocumentKeys(
                    first.store, CacheUserId, mutationQueue,
                    remoteDocuments, documentKeys)
    IN /\ second.store = first.store
       /\ second.threw = first.threw
       /\ \A b \in BatchIds :
            StoreLoadAll(second.store, "batchIdOverlayIndex",
                         BatchIdRange(CacheUserId, b))
              = StoreLoadAll(first.store, "batchIdOverlayIndex",
                             BatchIdRange(CacheUserId, b))

\* Reached: a recalculation of both keys has returned and has left a patch
\* overlay for the first key, over two queued batches, and running it again
\* changes nothing.
C18_Witness ==
  LET m1 == <<"rooms", "r1", "messages", "m1">>
      again == RecalculateAndSaveOverlaysForDocumentKeys(
                 documentOverlayStore, CacheUserId, mutationQueue,
                 remoteDocuments, ViewKeys)
  IN /\ op.name = "recalculateAndSaveOverlaysForDocumentKeys"
     /\ ~op.threw
     /\ op.keys = ViewKeys
     /\ Len(mutationQueue) = 2
     /\ GetOverlay(m1) # Null
     /\ IsPatchMutation(GetOverlay(m1).mutation)
     /\ ~again.threw
     /\ again.store = documentOverlayStore

\* The keys the inverted index of the in-memory cache holds for a batch id.
IndexedKeys(batchId) ==
  IF MapHas(overlayByBatchId, batchId)
    THEN MapGet(overlayByBatchId, batchId).keys ELSE {}

\* C19: in the in-memory cache, after an operation has returned, a key k is
\* in overlayByBatchId[b] exactly when overlays holds an overlay for k with
\* largestBatchId = b, for every key k and batch id b.
C19_IndexAgreesWithOverlays ==
  (impl = "memory" /\ ~op.threw) =>
    \A k \in Keys, b \in BatchIds :
      k \in IndexedKeys(b) <=>
        /\ MemoryGetOverlay(overlays, k) # Null
        /\ MemoryGetOverlay(overlays, k).largestBatchId = b

\* C20: computeViews passes a document to recalculateAndSaveOverlays exactly
\* when its key is in existenceStateChanged and its overlay (the memoized
\* one when there is one for the key, else the one of the overlay cache) is
\* absent or a patch; every other document is returned with its overlay's
\* mutation applied once to the base document (unchanged without an
\* overlay); and a document whose overlay is not a patch is not
\* recalculated and keeps its stored overlay.
C20_ComputeViewsDecision ==
  \A keys \in DocumentKeySets : \A existenceStateChanged \in SUBSET keys :
    \A memoizedOverlays \in MemoizedOverlayMaps :
      LET docs == GetEntries(remoteDocuments, keys)
          stored(k) == IndexedDbGetOverlay(documentOverlayStore, CacheUserId, k)
          overlay(k) == IF k \in DOMAIN memoizedOverlays
                          THEN memoizedOverlays[k] ELSE stored(k)
          r == ComputeViews(documentOverlayStore, CacheUserId, mutationQueue,
                            docs, memoizedOverlays, existenceStateChanged)
      IN /\ r.recalculated =
              {k \in keys :
                 /\ k \in existenceStateChanged
                 /\ (overlay(k) = Null \/ IsPatchMutation(overlay(k).mutation))}
         /\ ~r.threw =>
              \A k \in keys \ r.recalculated :
                SortedMapGet(r.results, k) =
                  IF overlay(k) = Null THEN docs[k]
                  ELSE MutationApplyToLocalView(overlay(k).mutation, docs[k],
                                                Null).document
         /\ \A k \in keys :
              (overlay(k) # Null /\ ~IsPatchMutation(overlay(k).mutation)) =>
                /\ k \notin r.recalculated
                /\ IndexedDbGetOverlay(r.store, CacheUserId, k) = stored(k)

\* Reached: getLocalViewOfDocuments has recalculated the patch overlay of
\* the first key and has left the set overlay of the second key, whose key
\* was in existenceStateChanged too, and the same call decides so again.
C20_Witness ==
  LET m1 == <<"rooms", "r1", "messages", "m1">>
      m2 == <<"rooms", "r1", "messages", "m2">>
      r == ComputeViews(documentOverlayStore, CacheUserId, mutationQueue,
                        GetEntries(remoteDocuments, ViewKeys), EmptyMap,
                        ViewKeys)
  IN /\ op.name = "getLocalViewOfDocuments"
     /\ ~op.threw
     /\ op.keys = {m1}
     /\ GetOverlay(m1) # Null
     /\ IsPatchMutation(GetOverlay(m1).mutation)
     /\ GetOverlay(m2) # Null
     /\ ~IsPatchMutation(GetOverlay(m2).mutation)
     /\ ~r.threw
     /\ r.recalculated = {m1}
     /\ r.store = documentOverlayStore

\* The saveOverlays calls one run of recalculateAndSaveOverlays pushes, in
\* the order of the loop over iter: the batch id and the overlays staged.
RECURSIVE StagedCalls(_, _, _, _)
StagedCalls(r, iter, i, processed) ==
  IF i > Len(iter) THEN <<>>
  ELSE <<[batchId |-> iter[i],
          overlays |-> StagedOverlays(r, iter[i], processed)]>>
       \o StagedCalls(r, iter, i + 1,
            processed \cup SortedMapGet(r.documentsByBatchId, iter[i]).keys)

\* The store after the calls have completed in the given order.
RECURSIVE SaveInOrder(_, _, _, _)
SaveInOrder(store, calls, order, i) ==
  IF i > Len(order) THEN store
  ELSE SaveInOrder(
         IndexedDbSaveOverlays(store, CacheUserId, calls[order[i]].batchId,
                               calls[order[i]].overlays),
         calls, order, i + 1)

\* The orders in which n calls can complete.
CompletionOrders(n) ==
  {order \in [1..n -> 1..n] :
     \A i, j \in 1..n : order[i] = order[j] => i = j}

\* C21: in a run of recalculateAndSaveOverlays that reaches its saves, the
\* calls are pushed in descending batch id order, each key a queued batch
\* touches is staged in one call only, that of the largest batch id
\* touching it, and the store is the same for every order in which the
\* calls complete.
C21_StagedOnceOrderFree ==
  \A documentKeys \in DocumentKeySets :
    LET docs == GetEntries(remoteDocuments, documentKeys)
        r == RecalculateBatches(
               [docs |-> docs, masks |-> EmptyMap,
                documentsByBatchId |-> EmptyMap, threw |-> FALSE],
               GetAllMutationBatchesAffectingDocumentKeys(mutationQueue, docs),
               1)
        iter == GetReverseIterator(r.documentsByBatchId)
        calls == StagedCalls(r, iter, 1, {})
        stagedIn(k) ==
          {i \in 1..Len(calls) :
             \E j \in 1..Len(calls[i].overlays) : calls[i].overlays[j].key = k}
    IN ~r.threw =>
         /\ \A i, j \in 1..Len(calls) :
              i < j => calls[i].batchId > calls[j].batchId
         /\ \A k \in documentKeys :
              TouchingBatchIds(k) # {} =>
                stagedIn(k) =
                  {i \in 1..Len(calls) :
                     calls[i].batchId = Max(TouchingBatchIds(k))}
         /\ \A order \in CompletionOrders(Len(calls)) :
              SaveInOrder(documentOverlayStore, calls, order, 1) =
                RecalculateSave(documentOverlayStore, CacheUserId, r, iter,
                                1, {})

\* C22: for a document query, getDocumentsMatchingQuery returns the map
\* with the one entry key -> getDocument(key) when the local view of the
\* document (the remote entry with the stored overlay applied) is a found
\* document, and the empty map otherwise; never more than one entry.
C22_DocumentQuery ==
  \A k \in ViewKeys, offset \in Offsets :
    LET result == GetDocumentsMatchingQuery(documentOverlayStore, CacheUserId,
                    remoteDocuments, Query(k, Null), offset)
        document == GetDocument(documentOverlayStore, CacheUserId,
                                remoteDocuments, k).document
    IN /\ IsDocumentQuery(Query(k, Null))
       /\ Cardinality(DOMAIN result) <= 1
       /\ IF LocalViewFromOverlay(k).documentType = "FOUND"
            THEN /\ DOMAIN result = {k}
                 /\ result[k] = document
                 /\ document = LocalViewFromOverlay(k)
            ELSE result = EmptyMap

\* Reached: the first key is found in the remote document cache and deleted
\* by its overlay, the second key is unknown to the remote document cache
\* and set by its overlay; the document query of the first returns nothing,
\* that of the second one entry.
C22_Witness ==
  LET m1 == <<"rooms", "r1", "messages", "m1">>
      m2 == <<"rooms", "r1", "messages", "m2">>
      result(k) == GetDocumentsMatchingQuery(documentOverlayStore,
                     CacheUserId, remoteDocuments, Query(k, Null),
                     IndexOffset(0, -1))
  IN /\ remoteDocuments[m1].documentType = "FOUND"
     /\ GetOverlay(m1) # Null
     /\ GetOverlay(m1).mutation.type = "delete"
     /\ GetOverlay(m2) # Null
     /\ GetOverlay(m2).mutation.type = "set"
     /\ result(m1) = EmptyMap
     /\ DOMAIN result(m2) = {m2}

\* C24: no save of the in-memory cache and no recalculation dereferences a
\* missing bucket: saveOverlays of the in-memory cache, in its current
\* state, ends without a TypeError for every batch id and every map of
\* overlays, and after the first phase of a recalculation that found all
\* its documents, the bucket of every batch exists and holds each key of
\* the batch.
C24_BucketsDefined ==
  /\ \A b \in BatchIds, entries \in SaveInputs :
       ~MemorySaveOverlays(
          [overlays |-> overlays, overlayByBatchId |-> overlayByBatchId,
           threw |-> FALSE], b, entries).threw
  /\ \A documentKeys \in DocumentKeySets :
       LET docs == GetEntries(remoteDocuments, documentKeys)
           batches == GetAllMutationBatchesAffectingDocumentKeys(
                        mutationQueue, docs)
           r == RecalculateBatches(
                  [docs |-> docs, masks |-> EmptyMap,
                   documentsByBatchId |-> EmptyMap, threw |-> FALSE],
                  batches, 1)
       IN ~r.threw =>
            \A i \in 1..Len(batches) : \A k \in BatchKeys(batches[i]) :
              /\ SortedMapGet(r.documentsByBatchId, batches[i].batchId) # Null
              /\ BatchKeyObject(batches[i], k) \in
                   SortedMapGet(r.documentsByBatchId, batches[i].batchId).keys

\* C25: a recalculation for the documents D leaves the overlay (or its
\* absence) of every key outside D as it was, and looks up in D only
\* documents D holds: no batch makes it read a document that is missing
\* from D, which ends the call with a TypeError.
C25_WritesOnlyGivenKeys ==
  \A documentKeys \in DocumentKeySets :
    LET r == RecalculateAndSaveOverlaysForDocumentKeys(documentOverlayStore,
               CacheUserId, mutationQueue, remoteDocuments, documentKeys)
    IN /\ \A k \in ViewKeys \ documentKeys :
            IndexedDbGetOverlay(r.store, CacheUserId, k) =
              IndexedDbGetOverlay(documentOverlayStore, CacheUserId, k)
       /\ ~r.threw

\* The names of the read operations.
ReadNames ==
  {"getDocument", "getDocuments", "getDocumentsMatchingQuery", "getOverlay",
   "getOverlaysForCollection", "getOverlaysForCollectionGroup"}

\* C26: a read (getDocument, getDocuments, getDocumentsMatchingQuery,
\* getOverlay, getOverlaysForCollection, getOverlaysForCollectionGroup)
\* returns and leaves the overlay cache as it was: the rows of the
\* persistent cache and both maps of the in-memory cache.
C26_ReadsLeaveCache ==
  [][op'.name \in ReadNames =>
       /\ ~op'.threw
       /\ documentOverlayStore' = documentOverlayStore
       /\ overlays' = overlays
       /\ overlayByBatchId' = overlayByBatchId]_vars

\* Reached: getDocuments has returned in a state where a queued batch
\* touches the first key, which has no overlay, so that a recalculation of
\* the key writes one.
C26_Witness ==
  LET m1 == <<"rooms", "r1", "messages", "m1">>
      r == RecalculateAndSaveOverlaysForDocumentKeys(documentOverlayStore,
             CacheUserId, mutationQueue, remoteDocuments, {m1})
  IN /\ op.name = "getDocuments"
     /\ TouchingBatchIds(m1) # {}
     /\ GetOverlay(m1) = Null
     /\ ~r.threw
     /\ r.store # documentOverlayStore

\* C27: for the collection query without a filter, with the offset before
\* every batch id and every read time, each key of the collection whose
\* local view (getDocument) is a found document is in the result, with the
\* document getDocument returns for it.
C27_PointAndCollectionAgree ==
  \A k \in ViewKeys :
    LET result == GetDocumentsMatchingQuery(documentOverlayStore, CacheUserId,
                    remoteDocuments, Query(GetCollectionPath(k), Null),
                    IndexOffset(0, -1))
        document == GetDocument(documentOverlayStore, CacheUserId,
                                remoteDocuments, k).document
    IN document.documentType = "FOUND" =>
         /\ k \in DOMAIN result
         /\ result[k] = document

====
